---- MODULE Spec2Model ----
(***************************************************************************)
(* Model of kaleidoscope.interface.Interface                               *)
(* (src/kaleidoscope/interface.py): the bring-up sequence of the           *)
(* constructor, the staged activation of the pipeline, and the paginated,  *)
(* pooled retrieval of the augmented images.                               *)
(*                                                                         *)
(* The orchestrator is single threaded: pc is the statement the current    *)
(* public operation has reached ("idle" between operations).  Everything   *)
(* outside the process (the shell commands' output, the storage service,   *)
(* the environment variables) is an input drawn from a small set.          *)
(***************************************************************************)
EXTENDS Integers, Sequences, FiniteSets, TLC

\* ------------------------------------------------------------------ bounds
\* Public operations started in one behaviour.
MaxOps == 3
\* Objects in the augmented-images bucket, and pages its listing is cut into.
MaxObjects == 3
MaxPages == 3
\* max_workers of the ThreadPoolExecutor (it is sized from the host's cpu count).
PoolSize == 2
\* Largest `total` progress is called with.
MaxTotal == 3

\* ------------------------------------------------------------- identities
\* cluster_name_prefix the Interface is constructed with.
Prefix == "demo"
\* A prefix some other Interface was configured for (a mismatched environment).
OtherPrefix == "kaleidoscope"

ClusterName(p) == p \o ".k8s.local"
StateStoreName(p) == p \o "-kops-state-store"
OriginalImagesBucket(p) == p \o "-original-images-bucket"
AugmentedImagesBucket(p) == p \o "-augmented-images-bucket"
StateStoreUri(p) == "s3://" \o StateStoreName(p)

\* The three storage resources of one Interface.
Resources == {StateStoreName(Prefix), OriginalImagesBucket(Prefix), AugmentedImagesBucket(Prefix)}

\* ----------------------------------------------------------------- stages
BaseStages == <<"secret", "secret_store", "redis_service", "redis_master">>
AllStages == BaseStages \o <<"queue_maker", "poll", "job">>

Range(s) == {s[i] : i \in DOMAIN s}
Position(stage) == CHOOSE i \in DOMAIN AllStages : AllStages[i] = stage
IsPrefixOf(s, t) == Len(s) <= Len(t) /\ \A i \in DOMAIN s : s[i] = t[i]

\* ------------------------------------------------- the shell, as the code sees it
\* What a command may write to its standard error.
StderrTexts == {"", "Error from server"}
\* os.environ lookup of a variable that is not set.
Unset == "<unset>"
\* Values the user may have exported for KOPS_CLUSTER_NAME and KOPS_STATE_STORE.
EnvClusterNames == {ClusterName(Prefix), ClusterName(OtherPrefix), Unset}
EnvStateStores == {StateStoreUri(Prefix), StateStoreUri(OtherPrefix), Unset}
\* A command's standard output, as its sequence of lines.
PackageOutputs == {<<>>, <<"">>, <<"usage: help", "">>}
ReadyMessage(name) == "Your cluster " \o name \o " is ready"
ProbeOutputs ==
    { <<>>,
      <<"cluster not found">>,
      <<"Validating cluster", ReadyMessage(ClusterName(OtherPrefix))>>,
      <<"Validating cluster", ReadyMessage(ClusterName(Prefix)), "">> }

\* str.strip() on the output: leading and trailing blank lines go.
RECURSIVE StripLeft(_)
StripLeft(out) == IF out # <<>> /\ Head(out) = "" THEN StripLeft(Tail(out)) ELSE out
RECURSIVE StripRight(_)
StripRight(out) ==
    IF out # <<>> /\ out[Len(out)] = "" THEN StripRight(SubSeq(out, 1, Len(out) - 1)) ELSE out
Strip(out) == StripRight(StripLeft(out))

\* `message in output`
Contains(out, message) == \E i \in DOMAIN out : out[i] = message
\* Python's None.
None == "None"

\* subprocess.Popen(command, stdout=PIPE, shell=True).communicate(): only stdout is
\* piped, so the second element of the pair is None whatever the command wrote to
\* its standard error.
Communicate(out, errOut) == [output |-> out, error |-> None]

\* Python truth value of communicate()'s error element.
Truthy(e) == e # None /\ e # ""

\* _pass_command_to_shell: raise OSError if error, else return the output.
PassCommandToShell(out, errOut) ==
    LET r == Communicate(out, errOut)
    IN  [raises |-> Truthy(r.error), output |-> Strip(r.output)]

\* ------------------------------------------------------------------ state
VARIABLES
    pc,           \* statement the running operation has reached, "idle" if none
    op,           \* the public operation running, or the last one that ran
    ops,          \* public operations started so far
    constructed,  \* an Interface object exists (a constructor has returned)
    raised,       \* exception the current/last operation ended with, "none" if none
    bucket,       \* storage service: resource -> "absent" | "requested" | "visible"
    rejected,     \* resources a create-bucket request of which the service rejected
    checkLog,     \* resource -> results of the existence checks made on it, in order
    createReqs,   \* resource -> create-bucket requests issued
    versionReqs,  \* resource -> put-bucket-versioning requests issued
    opMutations,  \* storage-mutating requests issued by the current operation
    probe,        \* result of the readiness probe of the current operation
    readySeen,    \* some readiness probe has returned Ready
    activated,    \* stages whose activation call has returned without raising
    opStages,     \* stages activated by the current operation, in order
    lastCmd,      \* the last shell command of the current operation
    lastErr,      \* whether that command wrote to its standard error
    lastStorageReq, \* the last request the current operation sent to the storage service
    envName,      \* what os.environ gave for KOPS_CLUSTER_NAME in the current operation
    envStore,     \* what os.environ gave for KOPS_STATE_STORE in the current operation
    message,      \* the message of the exception the environment check raised
    uploadArgs,   \* the arguments upload_images was called with
    ppc,          \* progress: statement the call has reached, "idle" before the call
    total,        \* progress: the `total` it was called with
    tick,         \* progress: the loop variable i
    logLines,     \* progress: what `kubectl logs poll` returned in this iteration
    main,         \* progress: what _get_progress returned in this iteration
    estimate,     \* progress: what this iteration wrote to the terminal
    spinner,      \* progress: elements taken from the spinner cycle
    praised,      \* progress: exception the call ended with, "none" if none
    probeOut,     \* what the status query of the current operation returned
    \* download_augmented_images
    pages,          \* the service's listing of the augmented-images bucket, page by page
    rpc,            \* statement download_augmented_images has reached
    kwargsToken,    \* kwargs["ContinuationToken"], NoToken while the key is not set
    image_pointers, \* the list _download_augmented_images_pointers accumulates
    listed,         \* what _download_augmented_images_pointers returned
    listCalls,      \* list_objects_v2 calls issued
    queue,          \* the executor's work queue
    submitted,      \* pointers executor.map has submitted
    threads,        \* worker threads the executor has started
    wstate,         \* worker -> "idle" | "get_object" | "write_file"
    wptr,           \* worker -> the pointer it is downloading
    handed,         \* key -> times a worker took it from the queue
    completed,      \* key -> times its file was written
    rraised         \* exception download_augmented_images ended with

orchestrationVars ==
    <<pc, op, ops, constructed, raised, bucket, rejected, checkLog, createReqs, versionReqs,
      opMutations, probe, readySeen, activated, opStages, lastCmd, lastErr, lastStorageReq,
      envName, envStore, message, uploadArgs, probeOut>>
retrievalVars ==
    <<pages, rpc, kwargsToken, image_pointers, listed, listCalls, queue, submitted, threads,
      wstate, wptr, handed, completed, rraised>>
progressVars == <<ppc, total, tick, logLines, main, estimate, spinner, praised>>
vars == <<orchestrationVars, retrievalVars, progressVars>>

storageVars ==
    <<bucket, rejected, checkLog, createReqs, versionReqs, opMutations, lastStorageReq>>
inputVars == <<envName, envStore, message, uploadArgs, probeOut>>
\* A per-operation observation that has not been made.
NotRead == "<not read>"
NoRequest == [kind |-> "none", resource |-> "none"]
NoArgs == [called |-> FALSE, s3_origin |-> FALSE, local_images_directory |-> FALSE]
stageVars == <<activated, opStages>>
shellVars == <<lastCmd, lastErr>>

\* ------------------------------------------- the listing, as the service gives it
Keys == 1..MaxObjects
ThreadIds == 1..MaxObjects
\* kwargs holds no ContinuationToken.
NoToken == 0
\* The keys a..b in order.
KeyRun(a, b) == [i \in 1..(b - a + 1) |-> a + i - 1]
KeyRuns == {<<>>} \cup {KeyRun(a, b) : a \in Keys, b \in Keys}
RECURSIVE Flatten(_)
Flatten(ps) == IF ps = <<>> THEN <<>> ELSE Head(ps) \o Flatten(Tail(ps))
\* A bucket of n objects listed in up to MaxPages pages; a page that is not the last
\* holds keys, the last may hold none (an empty bucket, or the rest deleted meanwhile).
Listings ==
    {ps \in UNION {[1..n -> KeyRuns] : n \in 1..MaxPages} :
        /\ \E n \in 0..MaxObjects : Flatten(ps) = KeyRun(1, n)
        /\ \A i \in 1..(Len(ps) - 1) : ps[i] # <<>>}

\* s3.list_objects_v2(**kwargs): the first page without a token, else the page after
\* the one that gave the token.  "Contents" is absent from a page without keys,
\* "NextContinuationToken" from the last page.
ListObjectsV2(token) ==
    LET i == IF token = NoToken THEN 1 ELSE token + 1
    IN  [hasContents |-> pages[i] # <<>>,
         Contents |-> pages[i],
         hasNext |-> i < Len(pages),
         NextContinuationToken |-> i]

RetrievalIdle ==
    /\ rpc = "idle"
    /\ kwargsToken = NoToken
    /\ image_pointers = <<>>
    /\ listed = [isNone |-> TRUE, items |-> <<>>]
    /\ listCalls = 0
    /\ queue = <<>>
    /\ submitted = 0
    /\ threads = {}
    /\ wstate = [w \in ThreadIds |-> "idle"]
    /\ wptr = [w \in ThreadIds |-> 0]
    /\ handed = [k \in Keys |-> 0]
    /\ completed = [k \in Keys |-> 0]
    /\ rraised = "none"

\* progress has not been called: no number sampled, nothing written.
NoNumber == [isNone |-> TRUE, value |-> 0]
NothingWritten == [written |-> FALSE, value |-> 0]
ProgressIdle ==
    /\ ppc = "idle"
    /\ total = 0
    /\ tick = 0
    /\ logLines = <<>>
    /\ main = NoNumber
    /\ estimate = NothingWritten
    /\ spinner = 0
    /\ praised = "none"

InitOrchestration ==
    /\ pc = "idle"
    /\ op = "none"
    /\ ops = 0
    /\ constructed = FALSE
    /\ raised = "none"
    /\ bucket \in [Resources -> {"absent", "visible"}]
    /\ rejected = {}
    /\ checkLog = [r \in Resources |-> <<>>]
    /\ createReqs = [r \in Resources |-> 0]
    /\ versionReqs = [r \in Resources |-> 0]
    /\ opMutations = 0
    /\ probe = "none"
    /\ readySeen = FALSE
    /\ activated = {}
    /\ opStages = <<>>
    /\ lastCmd = "none"
    /\ lastErr = FALSE
    /\ lastStorageReq = NoRequest
    /\ envName = NotRead
    /\ envStore = NotRead
    /\ message = <<>>
    /\ uploadArgs = NoArgs
    /\ probeOut = <<>>

Init ==
    /\ InitOrchestration
    /\ pages = <<<<>>>>
    /\ RetrievalIdle
    /\ ProgressIdle

\* A public operation is entered: the per-operation observations start afresh.
Enter(name, first) ==
    /\ pc = "idle"
    /\ ops < MaxOps
    /\ ops' = ops + 1
    /\ op' = name
    /\ pc' = first
    /\ raised' = "none"
    /\ opMutations' = 0
    /\ probe' = "none"
    /\ opStages' = <<>>
    /\ lastCmd' = "none"
    /\ lastErr' = FALSE
    /\ lastStorageReq' = NoRequest
    /\ envName' = NotRead
    /\ envStore' = NotRead
    /\ message' = <<>>
    /\ uploadArgs' = NoArgs
    /\ probeOut' = <<>>
    /\ UNCHANGED <<retrievalVars, progressVars, constructed, bucket, rejected, checkLog,
                   createReqs, versionReqs, readySeen, activated>>

\* The operation goes on at statement `next`.
Continue(next) == pc' = next /\ UNCHANGED <<raised, constructed>>

\* The operation ends by raising exception e; a constructor that raises leaves no object.
Raise(e) == pc' = "idle" /\ raised' = e /\ UNCHANGED constructed

\* The operation returns normally; a constructor that returns leaves an object.
Return == pc' = "idle" /\ UNCHANGED raised /\ constructed' = (constructed \/ op = "construct")

\* One call of _pass_command_to_shell(cmd) whose process printed `out` and wrote
\* `errOut` to its standard error: the command is recorded, and the call raises
\* OSError exactly when the code sees an error.
Shell(cmd, errOut) ==
    /\ lastCmd' = cmd
    /\ lastErr' = (errOut # "")

\* ------------------------------------------------------------ __init__
Construct == Enter("construct", "kubectl_check")

\* _package_message_non_zero(package, args): bool(len(output)); the constructor raises
\* AssertionError when it is False.
PackageCheck(at, cmd, next) ==
    /\ pc = at
    /\ \E out \in PackageOutputs, errOut \in StderrTexts :
         /\ Shell(cmd, errOut)
         /\ LET r == PassCommandToShell(out, errOut)
            IN  IF r.raises THEN Raise("OSError")
                ELSE IF Len(r.output) = 0 THEN Raise("AssertionError")
                ELSE Continue(next)
    /\ UNCHANGED <<retrievalVars, progressVars, inputVars, op, ops, storageVars, probe,
                   readySeen, stageVars>>

CheckKubectl == PackageCheck("kubectl_check", "kubectl -h", "aws_check")
CheckAws == PackageCheck("aws_check", "aws help", "exists_state_store")

\* ------------------------------------------------------ storage resources
\* _bucket_exists: the bucket is among those the service lists.
BucketExists(r) == bucket[r] = "visible"

\* Mutants of AfterCheck: the creation is not conditional / the condition is inverted.
AfterCheck_AlwaysCreate(exists, createPc, skipPc) == createPc
AfterCheck_Inverted(exists, createPc, skipPc) == IF exists THEN createPc ELSE skipPc

\* `if not self._bucket_exists(name): create`, as the statement that follows the check.
AfterCheck(exists, createPc, skipPc) == IF ~exists THEN createPc ELSE skipPc

\* One call of _bucket_exists(r) under `if not`: the result is recorded and the
\* creation follows exactly when it is False.
ExistsStep(at, r, createPc, skipPc) ==
    /\ pc = at
    /\ checkLog' = [checkLog EXCEPT ![r] = Append(@, BucketExists(r))]
    /\ lastStorageReq' = [kind |-> "exists", resource |-> r]
    /\ LET next == AfterCheck(BucketExists(r), createPc, skipPc)
       IN  IF next = "return" THEN Return ELSE Continue(next)
    /\ UNCHANGED <<retrievalVars, progressVars, inputVars, op, ops, bucket, rejected,
                   createReqs, versionReqs, opMutations, probe, readySeen, stageVars,
                   shellVars>>

\* _create_bucket: subprocess.run of `aws s3api create-bucket`, its result not looked
\* at.  The service accepts the request (the bucket shows in listings once it has
\* propagated) or rejects it.
CreateStep(at, r, next) ==
    /\ pc = at
    /\ createReqs' = [createReqs EXCEPT ![r] = @ + 1]
    /\ opMutations' = opMutations + 1
    /\ lastStorageReq' = [kind |-> "create", resource |-> r]
    /\ \E accepted \in BOOLEAN :
         /\ bucket' = IF accepted /\ bucket[r] = "absent"
                       THEN [bucket EXCEPT ![r] = "requested"]
                       ELSE bucket
         /\ rejected' = IF accepted THEN rejected ELSE rejected \cup {r}
    /\ IF next = "return" THEN Return ELSE Continue(next)
    /\ UNCHANGED <<retrievalVars, progressVars, inputVars, op, ops, checkLog, versionReqs,
                   probe, readySeen, stageVars, shellVars>>

\* The statement after create_image_buckets: the constructor goes on with the
\* environment check, the public operation returns.
AfterImageBuckets == IF op = "construct" THEN "env_check" ELSE "return"

\* As if the versioning were applied to a state store that is already there.
ExistsStateStore_VersionsExisting ==
    ExistsStep("exists_state_store", StateStoreName(Prefix), "create_state_store",
               "apply_versioning")

ExistsStateStore ==
    ExistsStep("exists_state_store", StateStoreName(Prefix), "create_state_store",
               "exists_original")
\* _create_cluster_state_store, first half: the bucket.
CreateStateStore ==
    CreateStep("create_state_store", StateStoreName(Prefix), "apply_versioning")
\* _create_cluster_state_store, second half: `aws s3api put-bucket-versioning`.
ApplyVersioning ==
    /\ pc = "apply_versioning"
    /\ versionReqs' = [versionReqs EXCEPT ![StateStoreName(Prefix)] = @ + 1]
    /\ opMutations' = opMutations + 1
    /\ lastStorageReq' = [kind |-> "versioning", resource |-> StateStoreName(Prefix)]
    /\ Continue("exists_original")
    /\ UNCHANGED <<retrievalVars, progressVars, inputVars, op, ops, bucket, rejected, checkLog,
                   createReqs, probe, readySeen, stageVars, shellVars>>

\* create_image_buckets, called by the constructor and as a public operation.
CreateImageBuckets ==
    /\ constructed
    /\ Enter("create_image_buckets", "exists_original")
ExistsOriginal ==
    ExistsStep("exists_original", OriginalImagesBucket(Prefix), "create_original",
               "exists_augmented")
CreateOriginal ==
    CreateStep("create_original", OriginalImagesBucket(Prefix), "exists_augmented")
ExistsAugmented ==
    ExistsStep("exists_augmented", AugmentedImagesBucket(Prefix), "create_augmented",
               AfterImageBuckets)
CreateAugmented ==
    CreateStep("create_augmented", AugmentedImagesBucket(Prefix), AfterImageBuckets)

\* The storage service: an accepted bucket starts to show in listings.
Propagate(r) ==
    /\ bucket[r] = "requested"
    /\ bucket' = [bucket EXCEPT ![r] = "visible"]
    /\ UNCHANGED <<retrievalVars, progressVars, inputVars, pc, op, ops, constructed, raised,
                   rejected, checkLog, createReqs, versionReqs, opMutations, lastStorageReq,
                   probe, readySeen, stageVars, shellVars>>
PropagateAny == \E r \in Resources : Propagate(r)

\* ------------------------------------------------- environment variables
\* _check_environmental_variables: os.environ[...] raises KeyError for a variable
\* that is not set; a value other than the derived one raises EnvironmentError.
EnvironmentOutcome(name, store) ==
    IF name = Unset THEN "KeyError"
    ELSE IF name # ClusterName(Prefix) THEN "EnvironmentError"
    ELSE IF store = Unset THEN "KeyError"
    ELSE IF store # StateStoreUri(Prefix) THEN "EnvironmentError"
    ELSE "none"

\* The export statement the message tells the user to run.
ExportStatement(variable, value) ==
    <<"'export ", variable, "=\"", value, "\"' >> $HOME/.bash_profile">>

\* The message of the exception: EnvironmentError carries the instruction and the
\* export statement of the variable that differs, KeyError the name of the variable
\* that is not set.
EnvironmentMessage(name, store) ==
    IF name = Unset THEN <<"KOPS_CLUSTER_NAME">>
    ELSE IF name # ClusterName(Prefix)
      THEN <<"please run this command in Terminal and try again:">>
           \o ExportStatement("KOPS_CLUSTER_NAME", ClusterName(Prefix))
    ELSE IF store = Unset THEN <<"KOPS_STATE_STORE">>
    ELSE IF store # StateStoreUri(Prefix)
      THEN <<"please run this command in Terminal and try again:">>
           \o ExportStatement("KOPS_STATE_STORE", StateStoreUri(Prefix))
    ELSE <<>>

\* KOPS_STATE_STORE is looked up only when KOPS_CLUSTER_NAME has passed.
CheckEnvironment ==
    /\ pc = "env_check"
    /\ \E name \in EnvClusterNames, store \in EnvStateStores :
         LET e == EnvironmentOutcome(name, store)
         IN  /\ envName' = name
             /\ envStore' = IF name = ClusterName(Prefix) THEN store ELSE NotRead
             /\ message' = EnvironmentMessage(name, store)
             /\ IF e = "none" THEN Continue("cluster_ready") ELSE Raise(e)
    /\ UNCHANGED <<retrievalVars, progressVars, uploadArgs, probeOut, op, ops, storageVars,
                   probe, readySeen, stageVars, shellVars>>

\* ---------------------------------------------------------- readiness
\* As if a Ready result were remembered from an earlier probe.
ClusterReady_Cached(output) ==
    readySeen \/ Contains(output, ReadyMessage(ClusterName(Prefix)))

\* _cluster_ready: `kops validate cluster`, Ready when the output holds the message
\* for this cluster's name.
ClusterReady(output) == Contains(output, ReadyMessage(ClusterName(Prefix)))

\* What follows the probe: the constructor configures and activates the base
\* components when it is Ready and prints a message otherwise; validate_cluster returns.
AfterProbe(ready) ==
    IF op = "construct" /\ ready THEN "configure_base" ELSE "return"

ProbeCluster ==
    /\ pc = "cluster_ready"
    /\ \E out \in ProbeOutputs, errOut \in StderrTexts :
         /\ Shell("kops validate cluster", errOut)
         /\ LET r == PassCommandToShell(out, errOut)
                ready == ClusterReady(r.output)
            IN  IF r.raises
                  THEN Raise("OSError") /\ UNCHANGED <<probe, readySeen, probeOut>>
                  ELSE /\ probeOut' = r.output
                       /\ probe' = IF ready THEN "Ready" ELSE "NotReady"
                       /\ readySeen' = (readySeen \/ ready)
                       /\ IF AfterProbe(ready) = "return" THEN Return
                          ELSE Continue(AfterProbe(ready))
    /\ UNCHANGED <<retrievalVars, progressVars, envName, envStore, message, uploadArgs, op,
                   ops, storageVars, stageVars>>

ValidateCluster ==
    /\ constructed
    /\ Enter("validate_cluster", "cluster_ready")

\* ------------------------------------------------------------- stages
\* _configure_base_cluster: the manifests are written by yaml_creation.
ConfigureBaseCluster ==
    /\ pc = "configure_base"
    /\ Continue("activate_secret")
    /\ UNCHANGED <<retrievalVars, progressVars, inputVars, op, ops, storageVars, probe,
                   readySeen, stageVars, shellVars>>

\* _activate_<stage>: `kubectl create -f <stage>.yaml` through the shell.
ActivationCommand(stage) == "kubectl create -f " \o stage \o ".yaml"

Activate(at, stage, next) ==
    /\ pc = at
    /\ \E errOut \in StderrTexts :
         /\ Shell(ActivationCommand(stage), errOut)
         /\ opStages' = Append(opStages, stage)
         /\ IF PassCommandToShell(<<>>, errOut).raises
              THEN Raise("OSError") /\ UNCHANGED activated
              ELSE /\ activated' = activated \cup {stage}
                   /\ IF next = "return" THEN Return ELSE Continue(next)
    /\ UNCHANGED <<retrievalVars, progressVars, inputVars, op, ops, storageVars, probe,
                   readySeen>>

\* Mutant of ActivateSecret: _activate_base_components goes on with the wrong stage.
ActivateSecret_SkipsSecretStore == Activate("activate_secret", "secret", "activate_redis_service")

\* _activate_base_components
ActivateSecret == Activate("activate_secret", "secret", "activate_secret_store")
ActivateSecretStore == Activate("activate_secret_store", "secret_store", "activate_redis_service")
ActivateRedisService == Activate("activate_redis_service", "redis_service", "activate_redis_master")
ActivateRedisMaster == Activate("activate_redis_master", "redis_master", "return")

\* -------------------------------------------------------- upload_images
UploadImages ==
    /\ constructed
    /\ Enter("upload_images", "upload_source")

\* As if a call without a source fell back to the local copy command.
UploadSource_DefaultsToLocal(s3_origin, local_images_directory) == "upload_command"

\* The command is chosen from the arguments; ValueError with neither.
UploadSource(s3_origin, local_images_directory) ==
    IF s3_origin THEN "upload_command"
    ELSE IF local_images_directory THEN "upload_command"
    ELSE "ValueError"

ChooseUploadSource ==
    /\ pc = "upload_source"
    /\ \E s3_origin \in BOOLEAN, local_images_directory \in BOOLEAN :
         LET next == UploadSource(s3_origin, local_images_directory)
         IN  /\ uploadArgs' = [called |-> TRUE, s3_origin |-> s3_origin,
                               local_images_directory |-> local_images_directory]
             /\ IF next = "ValueError" THEN Raise("ValueError") ELSE Continue(next)
    /\ UNCHANGED <<retrievalVars, progressVars, envName, envStore, message, probeOut, op, ops,
                   storageVars, probe, readySeen, stageVars, shellVars>>

\* `aws s3 cp ... --recursive --quiet` through the shell; the call returns when the
\* process has ended.
UploadCommand ==
    /\ pc = "upload_command"
    /\ \E errOut \in StderrTexts :
         /\ Shell("aws s3 cp", errOut)
         /\ IF PassCommandToShell(<<>>, errOut).raises
              THEN Raise("OSError")
              ELSE Continue("activate_queue_maker")
    /\ UNCHANGED <<retrievalVars, progressVars, inputVars, op, ops, storageVars, probe,
                   readySeen, stageVars>>

ActivateQueueMaker == Activate("activate_queue_maker", "queue_maker", "return")

\* ------------------------------------------------------------ transform
Transform ==
    /\ constructed
    /\ Enter("transform", "activate_poll")

ActivatePoll == Activate("activate_poll", "poll", "activate_job")
\* create_job_yaml, then `kubectl create -f job.yaml`.
ActivateJob == Activate("activate_job", "job", "return")

\* --------------------------------------------- download_augmented_images
DownloadAugmentedImages ==
    /\ rpc = "idle"
    /\ rpc' = "list"
    /\ image_pointers' = <<>>
    /\ kwargsToken' = NoToken
    /\ UNCHANGED <<orchestrationVars, progressVars, pages, listed, listCalls, queue, submitted,
                   threads, wstate, wptr, handed, completed, rraised>>

\* One turn of the `while True` of _download_augmented_images_pointers: a page
\* without "Contents" ends the function with a bare `return`; a page without
\* "NextContinuationToken" ends the loop and the accumulated list is returned.
ListPage ==
    /\ rpc = "list"
    /\ listCalls' = listCalls + 1
    /\ LET response == ListObjectsV2(kwargsToken)
       IN  IF ~response.hasContents
             THEN /\ listed' = [isNone |-> TRUE, items |-> <<>>]
                  /\ rpc' = "map"
                  /\ UNCHANGED <<image_pointers, kwargsToken>>
             ELSE /\ image_pointers' = image_pointers \o response.Contents
                  /\ IF response.hasNext
                       THEN /\ kwargsToken' = response.NextContinuationToken
                            /\ UNCHANGED <<rpc, listed>>
                       ELSE /\ listed' = [isNone |-> FALSE, items |-> image_pointers']
                            /\ rpc' = "map"
                            /\ UNCHANGED kwargsToken
    /\ UNCHANGED <<orchestrationVars, progressVars, pages, queue, submitted, threads, wstate,
                   wptr, handed, completed, rraised>>

\* executor.map(self._download_one_file, image_pointers): zip(None) raises
\* TypeError, which leaves the `with` block.
StartMap ==
    /\ rpc = "map"
    /\ IF listed.isNone
         THEN rraised' = "TypeError" /\ rpc' = "returned"
         ELSE rpc' = "submit" /\ UNCHANGED rraised
    /\ UNCHANGED <<orchestrationVars, progressVars, pages, kwargsToken, image_pointers, listed,
                   listCalls, queue, submitted, threads, wstate, wptr, handed, completed>>

\* Mutant of AdjustThreadCount: a thread is started for every submitted task.
AdjustThreadCount_Unbounded(ts) == ts \cup {Cardinality(ts) + 1}

\* ThreadPoolExecutor.submit starts a worker thread while fewer than max_workers run.
AdjustThreadCount(ts) ==
    IF Cardinality(ts) < PoolSize THEN ts \cup {Cardinality(ts) + 1} ELSE ts

\* executor.map submits one task per pointer, in order.
Submit ==
    /\ rpc = "submit"
    /\ submitted < Len(listed.items)
    /\ queue' = Append(queue, listed.items[submitted + 1])
    /\ submitted' = submitted + 1
    /\ threads' = AdjustThreadCount(threads)
    /\ UNCHANGED <<orchestrationVars, progressVars, pages, rpc, kwargsToken, image_pointers,
                   listed, listCalls, wstate, wptr, handed, completed, rraised>>

\* map has submitted every pointer; the `with` block is left.
EndMap ==
    /\ rpc = "submit"
    /\ submitted = Len(listed.items)
    /\ rpc' = "shutdown"
    /\ UNCHANGED <<orchestrationVars, progressVars, pages, kwargsToken, image_pointers, listed,
                   listCalls, queue, submitted, threads, wstate, wptr, handed, completed,
                   rraised>>

\* A worker thread takes the next task from the work queue.
Take(w) ==
    /\ w \in threads
    /\ wstate[w] = "idle"
    /\ queue # <<>>
    /\ wptr' = [wptr EXCEPT ![w] = Head(queue)]
    /\ queue' = Tail(queue)
    /\ handed' = [handed EXCEPT ![Head(queue)] = @ + 1]
    /\ wstate' = [wstate EXCEPT ![w] = "get_object"]
    /\ UNCHANGED <<orchestrationVars, progressVars, pages, rpc, kwargsToken, image_pointers,
                   listed, listCalls, submitted, threads, completed, rraised>>

\* _download_one_file: s3.get_object(...).get("Body").read()
GetObject(w) ==
    /\ w \in threads
    /\ wstate[w] = "get_object"
    /\ wstate' = [wstate EXCEPT ![w] = "write_file"]
    /\ UNCHANGED <<orchestrationVars, progressVars, pages, rpc, kwargsToken, image_pointers,
                   listed, listCalls, queue, submitted, threads, wptr, handed, completed,
                   rraised>>

\* _download_one_file: makedirs and the write of the file; the task is done.
WriteFile(w) ==
    /\ w \in threads
    /\ wstate[w] = "write_file"
    /\ completed' = [completed EXCEPT ![wptr[w]] = @ + 1]
    /\ wstate' = [wstate EXCEPT ![w] = "idle"]
    /\ UNCHANGED <<orchestrationVars, progressVars, pages, rpc, kwargsToken, image_pointers,
                   listed, listCalls, queue, submitted, threads, wptr, handed, rraised>>

Worker == \E w \in ThreadIds : Take(w) \/ GetObject(w) \/ WriteFile(w)

\* Leaving the `with` block: executor.shutdown(wait=True) returns when the queue is
\* drained and every worker has finished its task.
Shutdown ==
    /\ rpc = "shutdown"
    /\ queue = <<>>
    /\ \A w \in threads : wstate[w] = "idle"
    /\ rpc' = "returned"
    /\ UNCHANGED <<orchestrationVars, progressVars, pages, kwargsToken, image_pointers, listed,
                   listCalls, queue, submitted, threads, wstate, wptr, handed, completed,
                   rraised>>

\* ----------------------------------------------------------------- Next
Retrieve ==
    \/ DownloadAugmentedImages
    \/ ListPage
    \/ StartMap
    \/ Submit
    \/ EndMap
    \/ Worker
    \/ Shutdown

\* download_augmented_images of an Interface, on any listing of its bucket.
InitRetrieve ==
    /\ InitOrchestration
    /\ \A r \in Resources : bucket[r] = "visible"
    /\ pages \in Listings
    /\ RetrievalIdle
    /\ ProgressIdle
SpecRetrieve == InitRetrieve /\ [][Retrieve]_vars

Next ==
    \/ Construct
    \/ CheckKubectl
    \/ CheckAws
    \/ ExistsStateStore
    \/ CreateStateStore
    \/ ApplyVersioning
    \/ CreateImageBuckets
    \/ ExistsOriginal
    \/ CreateOriginal
    \/ ExistsAugmented
    \/ CreateAugmented
    \/ PropagateAny
    \/ CheckEnvironment
    \/ ProbeCluster
    \/ ValidateCluster
    \/ ConfigureBaseCluster
    \/ ActivateSecret
    \/ ActivateSecretStore
    \/ ActivateRedisService
    \/ ActivateRedisMaster
    \/ UploadImages
    \/ ChooseUploadSource
    \/ UploadCommand
    \/ ActivateQueueMaker
    \/ Transform
    \/ ActivatePoll
    \/ ActivateJob

Spec == Init /\ [][Next]_vars

\* ------------------------------------------------------------- progress
\* What `kubectl logs poll` may print: nothing, a blank line, lines that start with
\* the worker's counter, a line that does not.
LogOutputs ==
    { <<>>,
      <<"">>,
      <<"0:queued">>,
      <<"6:queued", "7:queued">>,
      <<"42:queued", "">>,
      <<"waiting for queue">> }

\* str.split(":")[0]: the text before the first colon, the whole text if there is none.
RECURSIVE FirstField(_)
FirstField(text) ==
    IF Len(text) = 0 \/ SubSeq(text, 1, 1) = ":" THEN ""
    ELSE SubSeq(text, 1, 1) \o FirstField(SubSeq(text, 2, Len(text)))

DecimalDigits == "0123456789"
IsDigit(ch) == \E d \in 1..Len(DecimalDigits) : SubSeq(DecimalDigits, d, d) = ch
DigitValue(ch) == (CHOOSE d \in 1..Len(DecimalDigits) : SubSeq(DecimalDigits, d, d) = ch) - 1

\* int(text) on unsigned decimal text: ValueError on the empty text and on any
\* character that is not a digit.
IsDecimal(text) ==
    Len(text) > 0 /\ \A k \in 1..Len(text) : IsDigit(SubSeq(text, k, k))
RECURSIVE ParseInt(_)
ParseInt(text) ==
    IF Len(text) = 0 THEN 0
    ELSE 10 * ParseInt(SubSeq(text, 1, Len(text) - 1))
         + DigitValue(SubSeq(text, Len(text), Len(text)))

\* _get_progress on the stripped output, as lines: None when there is no line,
\* else int() of the first field of the last line.
GetProgress(output) ==
    IF Len(output) > 0
      THEN LET counts == FirstField(output[Len(output)])
           IN  IF IsDecimal(counts)
                 THEN [raises |-> FALSE, progress |-> [isNone |-> FALSE, value |-> ParseInt(counts)]]
                 ELSE [raises |-> TRUE, progress |-> NoNumber]
      ELSE [raises |-> FALSE, progress |-> NoNumber]

\* batch_size = 100 * 2**6
BatchSize == 100 * 2^6

\* `if main:` -- None and 0 are false.
MainTruthy(m) == ~m.isNone /\ m.value # 0

\* What one iteration writes for the number it sampled.
Written(m) ==
    IF MainTruthy(m) THEN [written |-> TRUE, value |-> BatchSize * (m.value + 1)]
    ELSE NothingWritten

\* progress(delay, total) of an Interface.
Progress ==
    /\ ppc = "idle"
    /\ \E t \in 0..MaxTotal : total' = t
    /\ tick' = 0
    /\ ppc' = "for"
    /\ UNCHANGED <<orchestrationVars, retrievalVars, logLines, main, estimate, spinner,
                   praised>>

\* `for i in range(total)`: the next iteration, or the end of the call.
ForRange ==
    /\ ppc = "for"
    /\ ppc' = IF tick < total THEN "get_progress" ELSE "returned"
    /\ UNCHANGED <<orchestrationVars, retrievalVars, total, tick, logLines, main, estimate,
                   spinner, praised>>

\* main = self._get_progress()
SampleProgress ==
    /\ ppc = "get_progress"
    /\ \E out \in LogOutputs, errOut \in StderrTexts :
         LET r == PassCommandToShell(out, errOut)
             g == GetProgress(r.output)
         IN  IF r.raises
               THEN /\ ppc' = "raised"
                    /\ praised' = "OSError"
                    /\ UNCHANGED <<logLines, main>>
             ELSE IF g.raises
               THEN /\ ppc' = "raised"
                    /\ praised' = "ValueError"
                    /\ logLines' = r.output
                    /\ UNCHANGED main
             ELSE /\ ppc' = "write"
                  /\ logLines' = r.output
                  /\ main' = g.progress
                  /\ UNCHANGED praised
    /\ UNCHANGED <<orchestrationVars, retrievalVars, total, tick, estimate, spinner>>

\* `if main:` the estimate and the next spinner element are written.
WriteEstimate ==
    /\ ppc = "write"
    /\ estimate' = Written(main)
    /\ spinner' = IF MainTruthy(main) THEN (spinner + 1) % 4 ELSE spinner
    /\ ppc' = "sleep"
    /\ UNCHANGED <<orchestrationVars, retrievalVars, total, tick, logLines, main, praised>>

\* time.sleep(delay), and the loop variable moves on.
Sleep ==
    /\ ppc = "sleep"
    /\ tick' = tick + 1
    /\ ppc' = "for"
    /\ UNCHANGED <<orchestrationVars, retrievalVars, total, logLines, main, estimate, spinner,
                   praised>>

Poll ==
    \/ Progress
    \/ ForRange
    \/ SampleProgress
    \/ WriteEstimate
    \/ Sleep

\* progress of an Interface whose buckets are there.
InitProgress ==
    /\ InitOrchestration
    /\ \A r \in Resources : bucket[r] = "visible"
    /\ pages = <<<<>>>>
    /\ RetrievalIdle
    /\ ProgressIdle
SpecProgress == InitProgress /\ [][Poll]_vars

\* ======================================================================
\* Properties of the bring-up and activation sequence (under Spec)
\* ======================================================================

\* The statement at which resource r's create-bucket request is issued.
CreatePc(r) ==
    IF r = StateStoreName(Prefix) THEN "create_state_store"
    ELSE IF r = OriginalImagesBucket(Prefix) THEN "create_original"
    ELSE "create_augmented"
\* A check on r has returned false and its creation request is the next statement.
PendingCreate(r) == pc = CreatePc(r)
\* Existence checks on r that returned false.
Misses(r) == Cardinality({i \in DOMAIN checkLog[r] : ~checkLog[r][i]})
\* The operation has activated a stage in this step.
ActivatesStage(stage) == opStages' = Append(opStages, stage)

\* C1: in the constructor the base stages are activated in the order secret,
\* secret-store, redis-service, redis-master; none is activated unless the
\* constructor's own readiness probe returned Ready, a NotReady probe activates
\* none, and a constructor that returns after a Ready probe has activated all four.
C1_BaseOrderInConstruct ==
    op = "construct" =>
        /\ IsPrefixOf(opStages, BaseStages)
        /\ (opStages # <<>> => probe = "Ready")
        /\ (probe = "NotReady" => opStages = <<>> /\ pc = "idle")
        /\ (pc = "idle" /\ probe = "Ready" /\ raised = "none" => opStages = BaseStages)
C1_Witness ==
    op = "construct" /\ pc = "idle" /\ probe = "Ready" /\ opStages = BaseStages

\* C2 (as claimed): no stage of any phase is activated while no readiness probe has
\* yet returned Ready.
C2_NoStageBeforeReady == [][\A stage \in Range(AllStages) : ActivatesStage(stage) => readySeen]_vars

\* C3 (as claimed): a stage is activated only when every stage before it in the
\* sequence has been activated successfully.
C3_AscendingAcrossPhases ==
    [][\A stage \in Range(AllStages) :
          ActivatesStage(stage) =>
              \A i \in 1..(Position(stage) - 1) : AllStages[i] \in activated]_vars

\* C4 (as claimed): an activation command that wrote error output makes the
\* operation fail with an error, and the next stage of the phase is not reached.
C4_ErrorAbortsPhase ==
    \A stage \in Range(AllStages) :
        (lastCmd = ActivationCommand(stage) /\ lastErr) => (pc = "idle" /\ raised = "OSError")

\* C5 (as claimed): a constructor that fails the environment validation has issued
\* no creation or versioning request.
C5_ValidationBeforeProvisioning ==
    (op = "construct" /\ raised = "EnvironmentError") => opMutations = 0

\* C6 (as claimed): two ensure calls on a resource that was absent at the first
\* check, and whose creation the service accepted, issue exactly one creation
\* request in total, whenever the service starts to list the new bucket.
C6_TwoEnsuresOneCreation ==
    \A r \in Resources :
        (Len(checkLog[r]) = 2 /\ ~checkLog[r][1] /\ ~PendingCreate(r) /\ r \notin rejected)
            => createReqs[r] = 1

\* C6 (amended): after two ensure calls on a resource, one creation request has been
\* issued per existence check that returned false: exactly one when one of the two
\* checks found the resource (absent at the first and listed at the second), two
\* when the second check still found it absent, none when both checks found it.
C6_TwoEnsuresByCheckResults ==
    \A r \in Resources :
        (Len(checkLog[r]) = 2 /\ ~PendingCreate(r)) =>
            /\ createReqs[r] = Misses(r)
            /\ (createReqs[r] = 1 <=> checkLog[r][1] # checkLog[r][2])
            /\ (checkLog[r] = <<FALSE, FALSE>> => createReqs[r] = 2)
            /\ (checkLog[r] = <<TRUE, TRUE>> => createReqs[r] = 0)
C6_Witness ==
    \E r \in Resources :
        checkLog[r] = <<FALSE, TRUE>> /\ createReqs[r] = 1 /\ pc = "idle"

\* C7: for each resource, a creation request is issued exactly for the existence
\* checks that returned false, as the statement right after the check; a resource
\* that every check found present gets no creation request.
C7_CreateIffCheckFalse ==
    \A r \in Resources :
        /\ createReqs[r] + (IF PendingCreate(r) THEN 1 ELSE 0) = Misses(r)
        /\ (PendingCreate(r) => checkLog[r] # <<>> /\ ~checkLog[r][Len(checkLog[r])])
        /\ ((\A i \in DOMAIN checkLog[r] : checkLog[r][i]) => createReqs[r] = 0)
C7_Witness ==
    \E r, q \in Resources :
        /\ pc = "idle"
        /\ checkLog[r] = <<FALSE>> /\ createReqs[r] = 1
        /\ checkLog[q] = <<TRUE>> /\ createReqs[q] = 0

\* C10 (as claimed): upload_images does not issue the queue-maker activation when
\* the upload command has reported an error.
C10_QueueMakerAfterUploadOk ==
    [][ActivatesStage("queue_maker") => ~(lastCmd = "aws s3 cp" /\ lastErr)]_vars

\* C11 (as claimed): a create-bucket request the service rejects ends the operation
\* with an error raised to the caller; the operation does not go on to its next
\* statement.
C11_FailedCreationRaises ==
    [][rejected' # rejected => (pc' = "idle" /\ raised' # "none")]_vars

\* The environment check of the current operation has run.
EnvironmentChecked == envName # NotRead

\* The configured values the check has read are the derived ones.
EnvironmentMatches ==
    envName = ClusterName(Prefix) /\ envStore = StateStoreUri(Prefix)

\* The value the message has to name: the one of the first variable that is
\* missing or differs.
ExpectedValue ==
    IF envName # ClusterName(Prefix) THEN ClusterName(Prefix) ELSE StateStoreUri(Prefix)

\* C12 (as claimed): whenever a configured value is missing or differs from the
\* derived one, the environment check fails with the precondition error
\* (EnvironmentError) whose message contains the expected value and the export
\* statement; it succeeds only when both values equal the derived ones.
C12_MissingOrDifferingFailsWithMessage ==
    EnvironmentChecked =>
        IF EnvironmentMatches
          THEN message = <<>>
          ELSE /\ raised = "EnvironmentError"
               /\ pc = "idle"
               /\ ExpectedValue \in Range(message)
               /\ \E variable \in {"KOPS_CLUSTER_NAME", "KOPS_STATE_STORE"} :
                    IsPrefixOf(ExportStatement(variable, ExpectedValue),
                               SubSeq(message, 2, Len(message)))

\* upload_images has looked at its arguments and found no source among them.
UploadWithoutSource ==
    /\ op = "upload_images"
    /\ uploadArgs.called
    /\ ~uploadArgs.s3_origin
    /\ ~uploadArgs.local_images_directory

\* C13: upload_images called with neither a local directory nor a remote source
\* raises the input error (ValueError) before any external call: the operation is
\* over, it has run no command and activated no stage; and the input error is
\* raised in no other case.
C13_NoSourceRaisesBeforeAnyCall ==
    /\ UploadWithoutSource =>
         /\ raised = "ValueError"
         /\ pc = "idle"
         /\ lastCmd = "none"
         /\ opStages = <<>>
         /\ opMutations = 0
    /\ raised = "ValueError" => UploadWithoutSource

\* An upload_images call without a source has been made and has ended.
C13_Witness == UploadWithoutSource /\ pc = "idle" /\ raised = "ValueError"

\* The latest existence check of resource r found it absent.
FoundAbsent(r) == checkLog[r] # <<>> /\ ~checkLog[r][Len(checkLog[r])]

\* C14: an enable-versioning request is issued only for the state store, only in
\* a call whose existence check found the state store absent, and directly after
\* that call's creation request for it (the creation is the latest storage
\* request when the versioning one is issued); no versioning request is issued
\* for an image bucket or after a check that found the state store.
C14_VersioningOnlyAfterStateStoreCreation ==
    [][\A r \in Resources :
         versionReqs'[r] # versionReqs[r] =>
           /\ r = StateStoreName(Prefix)
           /\ versionReqs'[r] = versionReqs[r] + 1
           /\ op = "construct"
           /\ FoundAbsent(r)
           /\ opMutations = 1
           /\ lastStorageReq = [kind |-> "create", resource |-> r]
           /\ lastStorageReq' = [kind |-> "versioning", resource |-> r]]_vars

\* The state store was found absent, created and versioned.
C14_Witness ==
    /\ versionReqs[StateStoreName(Prefix)] = 1
    /\ createReqs[StateStoreName(Prefix)] = 1
    /\ lastStorageReq = [kind |-> "versioning", resource |-> StateStoreName(Prefix)]

\* C15: readiness is not cached.  The result of a probe is Ready exactly when the
\* output of that probe's own status query holds the ready message for this
\* cluster's name, whatever earlier probes gave; and every validate_cluster call
\* that has ended has issued the status query and has a result of its own.
C15_ReadyFromOwnQueryOnly ==
    /\ probe # "none" =>
         (probe = "Ready" <=> ReadyMessage(ClusterName(Prefix)) \in Range(probeOut))
    /\ (op = "validate_cluster" /\ pc = "idle") =>
         /\ lastCmd = "kops validate cluster"
         /\ probe \in {"Ready", "NotReady"}
         /\ raised = "none"

\* A validate_cluster call gave NotReady after an earlier probe had given Ready.
C15_Witness ==
    /\ op = "validate_cluster"
    /\ pc = "idle"
    /\ readySeen
    /\ probe = "NotReady"

\* ======================================================================
\* Properties of progress (under SpecProgress)

\* The last line of the log read in this iteration starts with a counter.
StartsWithCounter ==
    logLines # <<>> /\ IsDecimal(FirstField(logLines[Len(logLines)]))

\* C16 (as claimed): the loop runs exactly `total` iterations and then stops; in
\* each iteration an empty log gives the sample None without an error, and a log
\* whose last line starts with a counter c, c = 0 included, has the iteration
\* write the estimate 6400 * (c + 1).
C16_EveryTickWritesEstimate ==
    /\ ppc = "returned" => tick = total
    /\ ppc = "sleep" =>
         IF logLines = <<>>
           THEN main.isNone /\ praised = "none"
           ELSE StartsWithCounter =>
                  estimate = [written |-> TRUE,
                              value |-> 6400 * (ParseInt(FirstField(logLines[Len(logLines)])) + 1)]

\* ======================================================================
\* Properties of download_augmented_images (under SpecRetrieve)
\* ======================================================================

\* Workers that hold a task.
InFlight == {w \in threads : wstate[w] # "idle"}

\* C8 (as claimed): for every listing, the listing function issues one call per
\* page and returns the concatenation of all pages' contents in page order.
C8_ListAllReturnsAllPages ==
    rpc = "map" =>
        /\ ~listed.isNone
        /\ listed.items = Flatten(pages)
        /\ listCalls = Len(pages)

C17_NoContentsGivesSequence ==
    /\ rpc \notin {"idle", "list"} =>
         /\ ~listed.isNone
         /\ listed.items = image_pointers
    /\ (rpc = "returned" /\ pages[1] = <<>>) =>
         /\ rraised = "none"
         /\ \A k \in Keys : handed[k] = 0
====
